---- MODULE Spec2Model ----
(***************************************************************************)
(* Model of the utility layer of ComfyUI-DP-Ideogram-Character:            *)
(*   src/utils/api_client.py   (IdeogramAPIClient, parse_api_error,        *)
(*                              calculate_cost, format_generation_info)    *)
(*   src/utils/image_utils.py  (ensure_rgb, resize_to_limit,               *)
(*                              calculate_aspect_ratio,                    *)
(*                              validate_image_dimensions,                 *)
(*                              create_error_image)                        *)
(*                                                                         *)
(* Every function of the layer is stateless, so a behaviour is one call:   *)
(* Init draws the operation and its inputs (and, for the HTTP operations,  *)
(* what the remote service will answer), and the operation's action        *)
(* applies the function as the code computes it and records what it        *)
(* returned, whether an exception left it, the HTTP requests it sent, the  *)
(* imaging-library calls it made and the image objects afterwards.         *)
(***************************************************************************)
EXTENDS Integers, Sequences, FiniteSets, TLC

VARIABLES
    op,         \* the operation called
    args,       \* its inputs (and the environment's answers), as drawn
    done,       \* FALSE before the call, TRUE once it has returned or raised
    ret,        \* the value returned
    raised,     \* TRUE iff an exception propagated out of the call
    requests,   \* the HTTP requests the call issued, in order
    pil,        \* the imaging-library calls the call made, in order
    heap        \* the image objects: id -> [mode, size, pixels]

vars == <<op, args, done, ret, raised, requests, pil, heap>>

Min(a, b) == IF a < b THEN a ELSE b
Max(a, b) == IF a > b THEN a ELSE b
Abs(a) == IF a < 0 THEN -a ELSE a

----------------------------------------------------------------------------
(* Python values.  Every value is a record [kind, v]; kind is compared     *)
(* first, so values of different kinds are simply unequal.                 *)

None == [kind |-> "None", v |-> 0]
PyBool(b) == [kind |-> "bool", v |-> b]
PyNum(n) == [kind |-> "num", v |-> n]
PyStr(s) == [kind |-> "str", v |-> s]
PyList(s) == [kind |-> "list", v |-> s]
PyDict(keys, f) == [kind |-> "dict", v |-> [keys |-> keys, val |-> f]]
PyTuple(s) == [kind |-> "tuple", v |-> s]

EmptyDict == PyDict({}, [k \in {} |-> None])

\* bool(x) of a value decoded from JSON
Truthy(x) ==
    CASE x.kind = "None" -> FALSE
      [] x.kind = "bool" -> x.v
      [] x.kind = "num" -> x.v # 0
      [] x.kind = "str" -> x.v # ""
      [] x.kind = "list" -> Len(x.v) > 0
      [] x.kind = "dict" -> x.v.keys # {}
      [] OTHER -> TRUE

----------------------------------------------------------------------------
(* Control flow of a Python function body: it returns a value, raises, or  *)
(* falls through to the statement after the try block.                     *)

Return(v, reqs) == [flow |-> "return", val |-> v, reqs |-> reqs]
Raise(reqs) == [flow |-> "raise", val |-> None, reqs |-> reqs]
Fall(reqs) == [flow |-> "fall", val |-> None, reqs |-> reqs]

----------------------------------------------------------------------------
(* The remote service.  One outcome of session.get(): the call raises (a   *)
(* network error or a timeout) or completes with a status and a body that  *)
(* response.json() decodes or fails to decode (NoJSON).                    *)

NoJSON == [kind |-> "undecodable", v |-> 0]

base_url == "https://api.ideogram.ai"
Timeout == 10

Statuses == {200, 204, 401, 404, 429, 500}

QuotaBodies ==
    { PyDict({"credits"}, [k \in {"credits"} |-> PyNum(5)]),
      EmptyDict, None, PyList(<<>>), PyNum(0), PyStr("ok") }

Outcomes ==
    [kind : {"error"}, exc : {"ConnectionError", "ReadTimeout"},
     status : {0}, json : {NoJSON}]
    \cup
    [kind : {"response"}, exc : {"none"},
     status : Statuses, json : QuotaBodies \cup {NoJSON}]

GenerationIds == {"gen-1", "gen-2"}

\* self.session.get(f"{self.base_url}{path}", timeout=10)
Request(path) == [method |-> "GET", url |-> <<base_url>> \o path, timeout |-> Timeout]

----------------------------------------------------------------------------
(* IdeogramAPIClient                                                       *)

\* check_quota with the try/except removed and the status test inverted
check_quota_unguarded(o) ==
    LET reqs == <<Request(<<"/v1/account/quota">>)>>
    IN  IF o.kind = "error" THEN Raise(reqs)
        ELSE IF o.status # 200
             THEN (IF o.json.kind = "undecodable" THEN Raise(reqs)
                   ELSE Return(o.json, reqs))
             ELSE Return(None, reqs)

check_quota(o) ==
    LET reqs == <<Request(<<"/v1/account/quota">>)>>
        try == IF o.kind = "error" THEN Raise(reqs)          \* session.get raises
               ELSE IF o.status = 200
                    THEN (IF o.json.kind = "undecodable"
                          THEN Raise(reqs)                   \* response.json() raises
                          ELSE Return(o.json, reqs))
                    ELSE Fall(reqs)                          \* 404 / other: log only
        caught == IF try.flow = "raise" THEN Fall(try.reqs) ELSE try
    IN  IF caught.flow = "fall" THEN Return(None, caught.reqs) ELSE caught

get_generation_status(generation_id, o) ==
    LET reqs == <<Request(<<"/v1/generations/", generation_id>>)>>
        try == IF o.kind = "error" THEN Raise(reqs)
               ELSE IF o.status = 200
                    THEN (IF o.json.kind = "undecodable"
                          THEN Raise(reqs)
                          ELSE Return(o.json, reqs))
                    ELSE Fall(reqs)
        caught == IF try.flow = "raise" THEN Fall(try.reqs) ELSE try
    IN  IF caught.flow = "fall" THEN Return(None, caught.reqs) ELSE caught

KeyValid == PyTuple(<<TRUE, "API key is valid">>)
KeyInvalid == PyTuple(<<FALSE, "Invalid API key">>)
KeyInconclusive == PyTuple(<<TRUE, "API key validation inconclusive">>)
KeyUnchecked == PyTuple(<<TRUE, "Could not validate API key (will try anyway)">>)

\* validate_api_key treating every non-200 answer of /v1/models as a bad key
validate_api_key_strict(o1, o2) ==
    LET q == check_quota(o1)
        try == IF q.flow = "raise" THEN Raise(q.reqs)
               ELSE IF Truthy(q.val) THEN Return(KeyValid, q.reqs)
               ELSE LET reqs == Append(q.reqs, Request(<<"/v1/models">>))
                    IN  IF o2.kind = "error" THEN Raise(reqs)
                        ELSE IF o2.status = 200 THEN Return(KeyValid, reqs)
                        ELSE Return(KeyInvalid, reqs)
    IN  IF try.flow = "raise" THEN Return(KeyUnchecked, try.reqs) ELSE try

validate_api_key(o1, o2) ==
    LET q == check_quota(o1)
        try == IF q.flow = "raise" THEN Raise(q.reqs)
               ELSE IF Truthy(q.val) THEN Return(KeyValid, q.reqs)
               ELSE LET reqs == Append(q.reqs, Request(<<"/v1/models">>))
                    IN  IF o2.kind = "error" THEN Raise(reqs)
                        ELSE IF o2.status = 200 THEN Return(KeyValid, reqs)
                        ELSE IF o2.status = 401 THEN Return(KeyInvalid, reqs)
                        ELSE Return(KeyInconclusive, reqs)
    IN  IF try.flow = "raise" THEN Return(KeyUnchecked, try.reqs) ELSE try

----------------------------------------------------------------------------
(* parse_api_error.  A failed response has a status, a raw text (a         *)
(* sequence of character codes) and the value response.json() decodes      *)
(* from it, or NoJSON.  The strings the function builds are kept as what   *)
(* built them: "repr" is str(x) of a non-string x, "dumps" is              *)
(* json.dumps(x), "text" a slice of the raw text, "http" the string        *)
(* "HTTP <status>".                                                        *)

MaxTextLen == 502
TextLimit == 500

Obj1(k, x) == PyDict({k}, [f \in {k} |-> x])
Obj2(k1, x1, k2, x2) == PyDict({k1, k2}, [f \in {k1, k2} |-> IF f = k1 THEN x1 ELSE x2])

ErrorBodies ==
    { Obj1("message", PyStr("bad")),
      Obj2("message", PyStr("bad"), "error", PyStr("y")),
      Obj2("message", PyStr("bad"), "error", Obj1("message", PyStr("x"))),
      Obj1("message", PyNum(123)),
      Obj1("error", PyStr("y")),
      Obj1("error", Obj1("message", PyStr("x"))),
      Obj1("error", Obj1("code", PyNum(7))),
      Obj1("error", EmptyDict),
      Obj1("error", PyNum(42)),
      Obj1("error", None),
      Obj1("error", PyList(<<PyStr("a")>>)),
      Obj1("detail", PyStr("z")),
      EmptyDict,
      PyList(<<PyStr("message")>>),
      PyList(<<PyStr("error")>>),
      PyList(<<PyStr("other")>>),
      PyList(<<>>),
      PyStr("no message here"),
      PyStr("fatal error"),
      PyStr("plain"),
      PyNum(42), PyBool(TRUE), None }

\* needle in haystack, for the sampled string bodies
HasSub(needle, haystack) ==
    <<needle, haystack>> \in { <<"message", "no message here">>,
                               <<"error", "fatal error">> }

TextOf(n) == [i \in 1..n |-> i % 10]
TextLens == {0, 1, TextLimit - 1, TextLimit, TextLimit + 1, MaxTextLen}

ErrorResponses ==
    { [status |-> s, text |-> TextOf(n), json |-> b] :
        s \in {400, 500}, n \in TextLens \ {0}, b \in ErrorBodies \cup {NoJSON} }
    \cup
    { [status |-> s, text |-> <<>>, json |-> NoJSON] : s \in {400, 500} }

\* x supports the `in` operator
IsContainer(x) == x.kind \in {"dict", "list", "str"}

\* key in x, for a container x
In(key, x) ==
    CASE x.kind = "dict" -> key \in x.v.keys
      [] x.kind = "list" -> \E i \in 1..Len(x.v) : x.v[i] = PyStr(key)
      [] x.kind = "str" -> HasSub(key, x.v)

\* str(x)
str(x) == IF x.kind = "str" THEN x ELSE [kind |-> "repr", v |-> x]

\* json.dumps(x)
json_dumps(x) == [kind |-> "dumps", v |-> x]

\* response.text[:500] if response.text else f"HTTP {response.status_code}"
TextOrStatus(response) ==
    IF Len(response.text) > 0
    THEN [kind |-> "text",
          v |-> SubSeq(response.text, 1, Min(TextLimit, Len(response.text)))]
    ELSE [kind |-> "http", v |-> response.status]

\* parse_api_error looking at `error` before `message`
parse_api_error_error_first(response) ==
    LET error_data == response.json
        try ==
          IF error_data.kind = "undecodable" THEN Raise(<<>>)
          ELSE IF ~IsContainer(error_data) THEN Raise(<<>>)
          ELSE IF In("error", error_data)
          THEN IF error_data.kind # "dict" THEN Raise(<<>>)
               ELSE LET e == error_data.v.val["error"]
                    IN  IF e.kind = "dict"
                        THEN Return(IF "message" \in e.v.keys
                                    THEN e.v.val["message"] ELSE str(e), <<>>)
                        ELSE Return(str(e), <<>>)
          ELSE IF In("message", error_data)
          THEN IF error_data.kind # "dict" THEN Raise(<<>>)
               ELSE Return(error_data.v.val["message"], <<>>)
          ELSE Return(json_dumps(error_data), <<>>)
    IN  IF try.flow = "raise" THEN Return(TextOrStatus(response), <<>>) ELSE try

parse_api_error(response) ==
    LET error_data == response.json
        try ==
          IF error_data.kind = "undecodable" THEN Raise(<<>>)   \* response.json() raises
          ELSE IF ~IsContainer(error_data) THEN Raise(<<>>)     \* `in` raises TypeError
          ELSE IF In("message", error_data)
          THEN IF error_data.kind # "dict" THEN Raise(<<>>)     \* str/list index by a key
               ELSE Return(error_data.v.val["message"], <<>>)
          ELSE IF In("error", error_data)
          THEN IF error_data.kind # "dict" THEN Raise(<<>>)
               ELSE LET e == error_data.v.val["error"]
                    IN  IF e.kind = "dict"
                        THEN Return(IF "message" \in e.v.keys
                                    THEN e.v.val["message"] ELSE str(e), <<>>)
                        ELSE Return(str(e), <<>>)
          ELSE Return(json_dumps(error_data), <<>>)
    IN  IF try.flow = "raise" THEN Return(TextOrStatus(response), <<>>) ELSE try

----------------------------------------------------------------------------
(* calculate_cost, format_generation_info.  Prices are in thousandths of   *)
(* a dollar (0.04 USD is 40), so a cost is an integer and its %.3f         *)
(* rendering is its whole dollars and its three decimals.                  *)

MaxImageCount == 4
DefaultPrice == 70

base_prices == [Turbo |-> 30, Default |-> 60, Quality |-> 90]
character_prices == [Turbo |-> 40, Default |-> 70, Quality |-> 100]

RenderSpeeds == {"Turbo", "Default", "Quality", "turbo", "Flash", ""}
Seeds == {"42", "random"}
DimensionLabels == {"1024x1024", "768x1344"}

\* calculate_cost with the two price tables swapped
calculate_cost_swapped(image_count, render_speed, use_character) ==
    LET prices == IF use_character THEN base_prices ELSE character_prices
        price_per_image == IF render_speed \in DOMAIN prices
                           THEN prices[render_speed] ELSE DefaultPrice
    IN  price_per_image * image_count

calculate_cost(image_count, render_speed, use_character) ==
    LET prices == IF use_character THEN character_prices ELSE base_prices
        price_per_image == IF render_speed \in DOMAIN prices
                           THEN prices[render_speed] ELSE DefaultPrice
    IN  price_per_image * image_count

\* f"{cost:.3f}" of a cost in thousandths
Format3f(cost) ==
    <<cost \div 1000, ".", (cost \div 100) % 10, (cost \div 10) % 10, cost % 10>>

format_generation_info(generation_id, image_count, render_speed, seed, dimensions) ==
    LET cost == calculate_cost(image_count, render_speed, TRUE)
    IN  <<"=== Generation Complete ===",
          <<"ID: ", generation_id>>,
          <<"Images: ", image_count>>,
          <<"Speed: ", render_speed>>,
          <<"Seed: ", seed>>,
          <<"Dimensions: ", dimensions>>,
          <<"Estimated Cost: $", Format3f(cost)>>,
          "=========================">>

----------------------------------------------------------------------------
(* Python floats.  calculate_aspect_ratio and resize_to_limit work on      *)
(* IEEE-754 doubles: every quotient, difference, product and square root   *)
(* is rounded to 53 significant bits, to nearest, ties to even.  A double  *)
(* is modelled exactly, as a fixed-point number of one integer limb and    *)
(* FracLimbs fraction limbs of LimbBits bits each, most significant limb   *)
(* first (TLC's integers have 32 bits).  Every double in the range         *)
(* [2^-(FracLimbs*LimbBits-Mantissa+1), 2^LimbBits) is such a number, and  *)
(* so is every difference of two of them.                                  *)

Mantissa == 53
LimbBits == 12
FracLimbs == 6
Base == 2 ^ LimbBits
Limbs == 1 + FracLimbs

\* the function f on 1..n as a sequence of n values
Tup(f) == SubSeq(f, 1, Len(f))

RECURSIVE DivLimbs(_, _, _, _)
\* n more quotient limbs of r / h (r < h), after acc; with the last remainder
DivLimbs(r, h, n, acc) ==
    IF n = 0 THEN <<acc, r>>
    ELSE DivLimbs((r * Base) % h, h, n - 1, Append(acc, (r * Base) \div h))

\* bit t of a limb sequence, counting from 1 at the most significant bit:
\* the limb that holds it and its weight there
LimbOf(t) == ((t - 1) \div LimbBits) + 1
WeightOf(t) == 2 ^ (LimbBits - 1 - ((t - 1) % LimbBits))
BitAt(x, t) == (x[LimbOf(t)] \div WeightOf(t)) % 2

\* the position of the most significant 1 of x, or 0 when x is zero
LeadingOne(x) ==
    IF \A i \in 1..Len(x) : x[i] = 0 THEN 0
    ELSE LET i == CHOOSE j \in 1..Len(x) : x[j] # 0 /\ \A k \in 1..(j - 1) : x[k] = 0
             e == CHOOSE k \in 0..(LimbBits - 1) : 2 ^ k <= x[i] /\ x[i] < 2 ^ (k + 1)
         IN  (i - 1) * LimbBits + (LimbBits - e)

\* x plus one unit of bit t, x having no bits below t
AddUlp(x, t) ==
    LET l == LimbOf(t)
        carry(j) == /\ j < l
                    /\ x[l] + WeightOf(t) >= Base
                    /\ \A k \in (j + 1)..(l - 1) : x[k] = Base - 1
    IN  Tup([j \in 1..Len(x) |->
                IF j > l THEN x[j]
                ELSE IF j = l THEN (x[l] + WeightOf(t)) % Base
                ELSE IF carry(j) THEN (x[j] + 1) % Base
                ELSE x[j]])

\* x (followed by a nonzero tail iff sticky) rounded to Mantissa
\* significant bits, to nearest, ties to even
RoundToDouble(x, sticky) ==
    LET p == LeadingOne(x)
        last == p + Mantissa - 1
    IN  IF p = 0 \/ last >= Len(x) * LimbBits THEN x
        ELSE LET l == LimbOf(last)
                 r == LimbOf(last + 1)
                 tail == \/ sticky
                         \/ x[r] % WeightOf(last + 1) # 0
                         \/ \E i \in (r + 1)..Len(x) : x[i] # 0
                 kept == Tup([i \in 1..Len(x) |->
                                IF i < l THEN x[i]
                                ELSE IF i = l THEN x[i] - (x[i] % WeightOf(last))
                                ELSE 0])
             IN  IF BitAt(x, last + 1) = 1 /\ (tail \/ BitAt(x, last) = 1)
                 THEN AddUlp(kept, last)
                 ELSE kept

\* the double nearest to w / h: one guard limb carries the rounding bit
FlDiv(w, h) ==
    LET frac == DivLimbs(w % h, h, FracLimbs + 1, <<>>)
    IN  SubSeq(RoundToDouble(<<w \div h>> \o frac[1], frac[2] # 0), 1, Limbs)

\* a < b
FlLess(a, b) ==
    \E k \in 1..Len(a) : a[k] < b[k] /\ \A j \in 1..(k - 1) : a[j] = b[j]

\* a - b exactly, for a >= b: limb i borrows iff the limbs below it of a
\* are less than those of b
SubLimbs(a, b) ==
    LET borrow(i) == \E k \in (i + 1)..Len(a) :
                        a[k] < b[k] /\ \A j \in (i + 1)..(k - 1) : a[j] = b[j]
    IN  Tup([i \in 1..Len(a) |->
                (a[i] - b[i] - (IF borrow(i) THEN 1 ELSE 0) + Base) % Base])

\* abs(a - b) in double arithmetic
FlAbsSub(a, b) ==
    IF FlLess(a, b)
    THEN RoundToDouble(SubLimbs(b, a), FALSE)
    ELSE RoundToDouble(SubLimbs(a, b), FALSE)

RECURSIVE Normalize(_, _, _)
\* the limbs of the number whose columns 1..i are cols[1..i], plus carry
\* at column i; the top column absorbs the last carry
Normalize(cols, i, carry) ==
    IF i = 0 THEN <<>>
    ELSE Append(Normalize(cols, i - 1, (cols[i] + carry) \div Base),
                (cols[i] + carry) % Base)

RECURSIVE SumProducts(_, _, _, _)
\* the sum of a[i] * b[k - i] for i from lo to hi
SumProducts(a, b, k, i) ==
    IF i > Len(a) \/ i > k - 1 THEN 0
    ELSE (IF k - i <= Len(b) THEN a[i] * b[k - i] ELSE 0)
         + SumProducts(a, b, k, i + 1)

\* a * b exactly: Len(a) + Len(b) limbs
MulLimbs(a, b) ==
    LET n == Len(a) + Len(b)
        cols == Tup([k \in 1..n |-> SumProducts(a, b, k, 1)])
    IN  Normalize(cols, n, 0)

\* a * b in double arithmetic
FlMul(a, b) ==
    SubSeq(RoundToDouble(MulLimbs(a, b), FALSE), 2, Limbs + 1)

\* x * Base + v, for x with a zero top limb
ShiftIn(x, v) == Tup([i \in 1..Len(x) |-> IF i < Len(x) THEN x[i + 1] ELSE v])

\* x * d for a digit d
MulDigit(x, d) == Normalize(Tup([i \in 1..Len(x) |-> x[i] * d]), Len(x), 0)

RECURSIVE RootDigit(_, _, _, _)
\* the largest digit d in lo..hi with (t + d) * d <= rem, t ending in a zero limb
RootDigit(t, rem, lo, hi) ==
    IF lo = hi THEN lo
    ELSE LET mid == (lo + hi + 1) \div 2
             td == [t EXCEPT ![Len(t)] = mid]
         IN  IF FlLess(rem, MulDigit(td, mid))
             THEN RootDigit(t, rem, lo, mid - 1)
             ELSE RootDigit(t, rem, mid, hi)

RECURSIVE RootLimbs(_, _, _, _)
\* the digit-by-digit square root: root and remainder after the first k - 1
\* pairs of limbs of the radicand x, continued to its end
RootLimbs(x, k, root, rem) ==
    IF 2 * k > Len(x) THEN <<root, rem>>
    ELSE LET rem1 == ShiftIn(ShiftIn(rem, x[2 * k - 1]), x[2 * k])
             t == ShiftIn(MulDigit(root, 2), 0)
             d == RootDigit(t, rem1, 0, Base - 1)
             td == [t EXCEPT ![Len(t)] = d]
         IN  RootLimbs(x, k + 1, ShiftIn(root, d), SubLimbs(rem1, MulDigit(td, d)))

\* sqrt(a) in double arithmetic
FlSqrt(a) ==
    LET zero == Tup([i \in 1..(2 * Limbs) |-> 0])
        x == <<0>> \o a \o Tup([i \in 1..FracLimbs |-> 0])
        r == RootLimbs(x, 1, zero, zero)
        root == SubSeq(r[1], Limbs + 1, 2 * Limbs)
    IN  RoundToDouble(root, \E i \in 1..(2 * Limbs) : r[2][i] # 0)

\* float(n) of an integer 0 <= n < Base
FlInt(n) == Tup([i \in 1..Limbs |-> IF i = 1 THEN n ELSE 0])

\* int(x) of a double x >= 0
FlTrunc(x) == x[1]

----------------------------------------------------------------------------
(* calculate_aspect_ratio                                                  *)

MaxSide == 40

\* the dict literal, in insertion order: label, and the literal as a quotient
aspect_ratios ==
    << <<"1:1", 1, 1>>, <<"4:3", 4, 3>>, <<"3:4", 3, 4>>, <<"16:9", 16, 9>>,
       <<"9:16", 9, 16>>, <<"3:2", 3, 2>>, <<"2:3", 2, 3>>, <<"5:4", 5, 4>>,
       <<"4:5", 4, 5>>, <<"16:10", 16, 10>>, <<"10:16", 10, 16>>,
       <<"3:1", 3, 1>>, <<"1:3", 1, 3>>, <<"2:1", 2, 1>>, <<"1:2", 1, 2>> >>

\* the dict's values, as doubles
aspect_values ==
    [i \in 1..Len(aspect_ratios) |-> FlDiv(aspect_ratios[i][2], aspect_ratios[i][3])]

RECURSIVE AbsDiffs(_, _, _)
\* abs(x[1] - ratio) for each item x from the i-th on, after acc
AbsDiffs(ratio, i, acc) ==
    IF i > Len(aspect_ratios) THEN acc
    ELSE AbsDiffs(ratio, i + 1, Append(acc, FlAbsSub(aspect_values[i], ratio)))

RECURSIVE MinLast(_, _, _)
\* the index of the last smallest key
MinLast(keys, i, best) ==
    IF i > Len(keys) THEN best
    ELSE MinLast(keys, i + 1, IF FlLess(keys[best], keys[i]) THEN best ELSE i)

RECURSIVE MinFirst(_, _, _)
\* min(): the index of the first smallest key, best being it among keys[1..i-1]
MinFirst(keys, i, best) ==
    IF i > Len(keys) THEN best
    ELSE MinFirst(keys, i + 1, IF FlLess(keys[i], keys[best]) THEN i ELSE best)

calculate_aspect_ratio(width, height) ==
    LET ratio == FlDiv(width, height)
        keys == AbsDiffs(ratio, 1, <<>>)
    IN  aspect_ratios[MinFirst(keys, 2, 1)][1]

AspectSides == (1..MaxSide) \cup {100, 1080, 1920}

\* width / height must lie in the range the fixed-point numbers hold
\* width / height needs Mantissa bits below its leading one: the ratios kept
\* are above 2^-SpareBits (and below Base)
SpareBits == Min(FracLimbs * LimbBits - Mantissa, 19)

AspectInputs ==
    { wh \in AspectSides \X AspectSides :
        /\ wh[1] * (2 ^ SpareBits) > wh[2]
        /\ wh[1] < wh[2] * Base }

----------------------------------------------------------------------------
(* validate_image_dimensions                                               *)

min_dim == 256
max_dim == 2048
max_pixels == 4194304

DimSamples == {-1, 0, 1, 100, 255, 256, 257, 1024, 2047, 2048, 2049, 2050, 4096}

\* validate_image_dimensions rejecting the largest allowed side
validate_image_dimensions_exclusive(width, height) ==
    IF width < min_dim \/ height < min_dim
    THEN <<FALSE, "Image dimensions too small. Minimum dimension is 256px">>
    ELSE IF width >= max_dim \/ height >= max_dim
    THEN <<FALSE, "Image dimensions too large. Maximum dimension is 2048px">>
    ELSE IF width * height > max_pixels
    THEN <<FALSE, "Image resolution too high. Maximum is 4194304 pixels">>
    ELSE <<TRUE, "Valid dimensions">>

validate_image_dimensions(width, height) ==
    IF width < min_dim \/ height < min_dim
    THEN <<FALSE, "Image dimensions too small. Minimum dimension is 256px">>
    ELSE IF width > max_dim \/ height > max_dim
    THEN <<FALSE, "Image dimensions too large. Maximum dimension is 2048px">>
    ELSE IF width * height > max_pixels
    THEN <<FALSE, "Image resolution too high. Maximum is 4194304 pixels">>
    ELSE <<TRUE, "Valid dimensions">>

----------------------------------------------------------------------------
(* Images.  An image object is [mode, size, data]; heap[i] is object i.    *)
(* A function that returns an image returns its reference.                 *)

ImageRef(i) == [kind |-> "image", v |-> i]

----------------------------------------------------------------------------
(* resize_to_limit.  The PNG encoder's answer is an input: the encoded     *)
(* size, in units of a quarter MiB, as is max_size_mb.                     *)

MaxPngUnits == 50
ResizeFloor == 256

LimitUnits == {1, 4, 40}
ResizeSides == {100, 200, 256, 300, 1024, 2048, 4000}

\* a PNG holds at most 4 bytes a pixel and a quarter MiB of headers
PngSizePossible(size, png_units) ==
    (png_units - 1) * 65536 <= size[1] * size[2]

ResizeInputs ==
    { [image |-> [mode |-> "RGB", size |-> <<w, h>>, data |-> "pixels"],
       png_units |-> c, max_units |-> mx] :
        w \in ResizeSides, h \in ResizeSides, c \in 1..MaxPngUnits, mx \in LimitUnits }

\* np.sqrt(max_size_mb / current_size_mb) * 0.9
ResizeFactor(max_units, png_units) ==
    FlMul(FlSqrt(FlDiv(max_units, png_units)), FlDiv(9, 10))

\* resize_to_limit without the minimum dimension
resize_to_limit_unclamped(h, image, png_units, max_units) ==
    IF png_units > max_units
    THEN LET resize_factor == ResizeFactor(max_units, png_units)
             new_width == FlTrunc(FlMul(FlInt(h[image].size[1]), resize_factor))
             new_height == FlTrunc(FlMul(FlInt(h[image].size[2]), resize_factor))
         IN  [val |-> ImageRef(Len(h) + 1),
              heap |-> Append(h, [mode |-> h[image].mode,
                                  size |-> <<new_width, new_height>>,
                                  data |-> <<"LANCZOS", h[image].data>>]),
              pil |-> <<"save PNG", "resize LANCZOS">>]
    ELSE [val |-> ImageRef(image), heap |-> h, pil |-> <<"save PNG">>]

resize_to_limit(h, image, png_units, max_units) ==
    IF png_units > max_units                      \* current_size_mb > max_size_mb
    THEN LET resize_factor == ResizeFactor(max_units, png_units)
             new_width == Max(FlTrunc(FlMul(FlInt(h[image].size[1]), resize_factor)),
                              ResizeFloor)
             new_height == Max(FlTrunc(FlMul(FlInt(h[image].size[2]), resize_factor)),
                               ResizeFloor)
         IN  [val |-> ImageRef(Len(h) + 1),
              heap |-> Append(h, [mode |-> h[image].mode,
                                  size |-> <<new_width, new_height>>,
                                  data |-> <<"LANCZOS", h[image].data>>]),
              pil |-> <<"save PNG", "resize LANCZOS">>]
    ELSE [val |-> ImageRef(image), heap |-> h, pil |-> <<"save PNG">>]

----------------------------------------------------------------------------
(* create_error_image.  The drawing calls are kept on the image, in order. *)
(* What the installed PIL can do is an input: the TrueType font loads, or  *)
(* only the built-in font does, or text cannot be drawn at all.            *)

MaxMsgLen == 11
LinePitch == 25
MaxLines == 10

MessageChars == {"a", "\n"}
Messages == UNION { [1..n -> MessageChars] : n \in 0..MaxMsgLen }
TextSupport == {"arial.ttf", "default", "unavailable"}
ErrorImageSizes == {<<512, 512>>, <<101, 75>>}

\* message.split('\n')
RECURSIVE SplitLines(_, _, _, _)

SplitLines(message, i, line, acc) ==
    IF i > Len(message) THEN Append(acc, line)
    ELSE IF message[i] = "\n" THEN SplitLines(message, i + 1, <<>>, Append(acc, line))
    ELSE SplitLines(message, i + 1, Append(line, message[i]), acc)

split(message) == SplitLines(message, 1, <<>>, <<>>)

\* text_bbox[2] - text_bbox[0]: a fixed advance per character of the font
CharWidth == [p \in {"arial.ttf", "default"} |-> IF p = "default" THEN 6 ELSE 11]
text_width(line, font) == Len(line) * CharWidth[font]

create_error_image(h, message, width, height, support) ==
    LET img == [mode |-> "RGB", size |-> <<width, height>>,
                data |-> [fill |-> <<128, 0, 0>>, text |-> <<>>]]
        text_lines == split(message)
        y_offset == height \div 2 - (Len(text_lines) * LinePitch)
        drawn == [i \in 1..Min(Len(text_lines), MaxLines) |->
                     [text |-> text_lines[i],
                      x |-> (width - text_width(text_lines[i], support)) \div 2,
                      y |-> y_offset + (i - 1) * LinePitch,
                      fill |-> <<255, 255, 255>>,
                      font |-> support]]
    IN  IF support = "unavailable"                \* except: pass
        THEN [val |-> ImageRef(Len(h) + 1), heap |-> Append(h, img), pil |-> <<"new RGB">>]
        ELSE [val |-> ImageRef(Len(h) + 1),
              heap |-> Append(h, [img EXCEPT !.data.text = Tup(drawn)]),
              pil |-> <<"new RGB", "Draw">>]

----------------------------------------------------------------------------
(* ensure_rgb.  Pixels are tuples of 8-bit bands, data one pixel a cell.   *)

Levels == {0, 100, 255}
Modes == {"RGB", "RGBA", "L", "LA"}
Bands(mode) == CASE mode = "RGB" -> 3 [] mode = "RGBA" -> 4
                 [] mode = "L" -> 1 [] mode = "LA" -> 2
ImageSizes == {<<1, 1>>, <<2, 1>>}

Images ==
    UNION { { [mode |-> m, size |-> sz, data |-> d] :
                d \in [1..(sz[1] * sz[2]) -> [1..Bands(m) -> Levels]] } :
            m \in Modes, sz \in ImageSizes }

\* PIL's 8-bit blend of band in2 over band in1 under mask
DIV255(a) == (((a + 128) \div 256) + a + 128) \div 256
BLEND8(mask, in1, in2) == DIV255(in1 * (255 - mask) + in2 * mask)

\* background.paste(image, mask=image.split()[3])
paste(background, image) ==
    [background EXCEPT !.data =
        [i \in DOMAIN background.data |->
            [b \in 1..3 |-> BLEND8(image.data[i][4], background.data[i][b],
                                   image.data[i][b])]]]

\* Image.new('RGB', size, color)
new_rgb(size, color) ==
    [mode |-> "RGB", size |-> size, data |-> [i \in 1..(size[1] * size[2]) |-> color]]

\* image.convert('RGB') of a greyscale image, with or without alpha
convert_rgb(image) ==
    [mode |-> "RGB", size |-> image.size,
     data |-> [i \in DOMAIN image.data |-> [b \in 1..3 |-> image.data[i][1]]]]

\* ensure_rgb converting in place
ensure_rgb_in_place(h, image) ==
    IF h[image].mode # "RGB"
    THEN IF h[image].mode = "RGBA"
         THEN [val |-> ImageRef(image),
               heap |-> [h EXCEPT ![image] =
                            paste(new_rgb(h[image].size, <<255, 255, 255>>), h[image])],
               pil |-> <<"new RGB", "split", "split", "paste">>]
         ELSE [val |-> ImageRef(image),
               heap |-> [h EXCEPT ![image] = convert_rgb(h[image])],
               pil |-> <<"convert RGB">>]
    ELSE [val |-> ImageRef(image), heap |-> h, pil |-> <<>>]

ensure_rgb(h, image) ==
    IF h[image].mode # "RGB"
    THEN IF h[image].mode = "RGBA"
         THEN LET background == new_rgb(h[image].size, <<255, 255, 255>>)
              IN  [val |-> ImageRef(Len(h) + 1),
                   heap |-> Append(h, paste(background, h[image])),
                   pil |-> <<"new RGB", "split", "split", "paste">>]
         ELSE [val |-> ImageRef(Len(h) + 1),
               heap |-> Append(h, convert_rgb(h[image])),
               pil |-> <<"convert RGB">>]
    ELSE [val |-> ImageRef(image), heap |-> h, pil |-> <<>>]

----------------------------------------------------------------------------
(* The call: Init draws it, one action per operation performs it.          *)

InitCall(o, a, h) ==
    /\ op = o
    /\ args = a
    /\ heap = h
    /\ done = FALSE
    /\ ret = None
    /\ raised = FALSE
    /\ requests = <<>>
    /\ pil = <<>>

\* the call ends with control-flow result r
Finish(r) ==
    /\ done' = TRUE
    /\ ret' = r.val
    /\ raised' = (r.flow = "raise")
    /\ requests' = r.reqs
    /\ UNCHANGED <<op, args>>

InitApi ==
    \/ \E o \in Outcomes : InitCall("check_quota", [outcome |-> o], <<>>)
    \/ \E g \in GenerationIds, o \in Outcomes :
          InitCall("get_generation_status", [generation_id |-> g, outcome |-> o], <<>>)
    \/ \E o1 \in Outcomes, o2 \in Outcomes :
          InitCall("validate_api_key", [quota |-> o1, models |-> o2], <<>>)

CheckQuota ==
    /\ ~done /\ op = "check_quota"
    /\ Finish(check_quota(args.outcome))
    /\ UNCHANGED <<pil, heap>>

GetGenerationStatus ==
    /\ ~done /\ op = "get_generation_status"
    /\ Finish(get_generation_status(args.generation_id, args.outcome))
    /\ UNCHANGED <<pil, heap>>

ValidateApiKey ==
    /\ ~done /\ op = "validate_api_key"
    /\ Finish(validate_api_key(args.quota, args.models))
    /\ UNCHANGED <<pil, heap>>

InitFree ==
    \/ \E r \in ErrorResponses : InitCall("parse_api_error", [response |-> r], <<>>)
    \/ \E n \in 0..MaxImageCount, s \in RenderSpeeds, u \in BOOLEAN :
          InitCall("calculate_cost",
                   [image_count |-> n, render_speed |-> s, use_character |-> u], <<>>)
    \/ \E g \in GenerationIds, n \in 0..MaxImageCount, s \in RenderSpeeds,
           sd \in Seeds, d \in DimensionLabels :
          InitCall("format_generation_info",
                   [generation_id |-> g, image_count |-> n, render_speed |-> s,
                    seed |-> sd, dimensions |-> d], <<>>)

ParseApiError ==
    /\ ~done /\ op = "parse_api_error"
    /\ Finish(parse_api_error(args.response))
    /\ UNCHANGED <<pil, heap>>

CalculateCost ==
    /\ ~done /\ op = "calculate_cost"
    /\ Finish(Return(PyNum(calculate_cost(args.image_count, args.render_speed,
                                          args.use_character)), <<>>))
    /\ UNCHANGED <<pil, heap>>

FormatGenerationInfo ==
    /\ ~done /\ op = "format_generation_info"
    /\ Finish(Return([kind |-> "lines",
                      v |-> format_generation_info(args.generation_id, args.image_count,
                                                   args.render_speed, args.seed,
                                                   args.dimensions)], <<>>))
    /\ UNCHANGED <<pil, heap>>

InitImage ==
    \/ \E wh \in AspectInputs :
          InitCall("calculate_aspect_ratio", [width |-> wh[1], height |-> wh[2]], <<>>)
    \/ \E w \in DimSamples, h \in DimSamples :
          InitCall("validate_image_dimensions", [width |-> w, height |-> h], <<>>)

InitResize ==
    \E a \in ResizeInputs :
        /\ PngSizePossible(a.image.size, a.png_units)
        /\ InitCall("resize_to_limit", a, <<a.image>>)

ResizeToLimit ==
    /\ ~done /\ op = "resize_to_limit"
    /\ LET r == resize_to_limit(heap, 1, args.png_units, args.max_units)
       IN  /\ Finish(Return(r.val, <<>>))
           /\ heap' = r.heap
           /\ pil' = r.pil

InitErrorImage ==
    \E m \in Messages, sz \in ErrorImageSizes, t \in TextSupport :
        InitCall("create_error_image",
                 [message |-> m, width |-> sz[1], height |-> sz[2], support |-> t], <<>>)

CreateErrorImage ==
    /\ ~done /\ op = "create_error_image"
    /\ LET r == create_error_image(heap, args.message, args.width, args.height,
                                   args.support)
       IN  /\ Finish(Return(r.val, <<>>))
           /\ heap' = r.heap
           /\ pil' = r.pil

InitEnsureRGB ==
    \E im \in Images : InitCall("ensure_rgb", [image |-> im], <<im>>)

EnsureRGB ==
    /\ ~done /\ op = "ensure_rgb"
    /\ LET r == ensure_rgb(heap, 1)
       IN  /\ Finish(Return(r.val, <<>>))
           /\ heap' = r.heap
           /\ pil' = r.pil

CalculateAspectRatio ==
    /\ ~done /\ op = "calculate_aspect_ratio"
    /\ Finish(Return(PyStr(calculate_aspect_ratio(args.width, args.height)), <<>>))
    /\ UNCHANGED <<pil, heap>>

ValidateImageDimensions ==
    /\ ~done /\ op = "validate_image_dimensions"
    /\ Finish(Return(PyTuple(validate_image_dimensions(args.width, args.height)), <<>>))
    /\ UNCHANGED <<pil, heap>>

Init ==
    InitApi \/ InitFree \/ InitImage \/ InitResize \/ InitErrorImage \/ InitEnsureRGB

Next ==
    \/ CheckQuota
    \/ GetGenerationStatus
    \/ ValidateApiKey
    \/ ParseApiError
    \/ CalculateCost
    \/ FormatGenerationInfo
    \/ CalculateAspectRatio
    \/ ValidateImageDimensions
    \/ ResizeToLimit
    \/ CreateErrorImage
    \/ EnsureRGB

Spec == Init /\ [][Next]_vars

----------------------------------------------------------------------------
\* check_quota returns data that counts as true
QuotaYieldsData(o) ==
    /\ o.kind = "response" /\ o.status = 200
    /\ o.json.kind # "undecodable" /\ Truthy(o.json)

(* C1: validate_api_key is fail-open.  It never raises; when check_quota    *)
(* yields data it reports success after that one request; otherwise it     *)
(* also requests GET /v1/models and reports failure exactly when that      *)
(* request completes with status 401.                                      *)
ValidateFailOpen ==
    (done /\ op = "validate_api_key") =>
        /\ ~raised
        /\ ret.kind = "tuple" /\ Len(ret.v) = 2
        /\ IF QuotaYieldsData(args.quota)
           THEN /\ ret.v[1] = TRUE
                /\ requests = <<Request(<<"/v1/account/quota">>)>>
           ELSE /\ requests = <<Request(<<"/v1/account/quota">>),
                                Request(<<"/v1/models">>)>>
                /\ (ret.v[1] = FALSE) <=>
                      (args.models.kind = "response" /\ args.models.status = 401)

ValidateFailOpenWitness ==
    /\ done /\ op = "validate_api_key"
    /\ ~QuotaYieldsData(args.quota)
    /\ args.models.kind = "error"
    /\ ret = KeyUnchecked

(* C2: check_quota and get_generation_status never raise, return the       *)
(* decoded body exactly when the status is 200 and the body decodes, the   *)
(* sentinel None in every other case, and issue exactly one request.       *)
StatusQueriesFailSoft ==
    (done /\ op \in {"check_quota", "get_generation_status"}) =>
        LET o == args.outcome
            decoded == o.kind = "response" /\ o.status = 200
                       /\ o.json.kind # "undecodable"
        IN  /\ ~raised
            /\ decoded => ret = o.json
            /\ ~decoded => ret = None
            /\ Len(requests) = 1
            /\ requests[1].url =
                  IF op = "check_quota"
                  THEN <<base_url, "/v1/account/quota">>
                  ELSE <<base_url, "/v1/generations/", args.generation_id>>

StatusQueriesFailSoftWitness ==
    /\ done /\ op = "get_generation_status"
    /\ args.outcome.kind = "response" /\ args.outcome.status = 200
    /\ args.outcome.json.kind = "undecodable"
    /\ ret = None /\ ~raised /\ Len(requests) = 1

----------------------------------------------------------------------------
\* The result the text of C3 gives when the body does not decode or probing
\* it fails: the first 500 characters of the raw text, or "HTTP <status>".
RawFallback(response) ==
    IF response.text = <<>>
    THEN [kind |-> "http", v |-> response.status]
    ELSE [kind |-> "text",
          v |-> [i \in 1..Min(500, Len(response.text)) |-> response.text[i]]]

\* What C3 and its amendment agree on: everything but the `error` field's value.
ParseApiErrorOutsideErrorField ==
    LET r == args.response
        b == r.json
        keys == b.v.keys
    IN  /\ ~raised
        /\ b.kind = "undecodable" => ret = RawFallback(r)
        /\ b.kind \in {"num", "bool", "None"} => ret = RawFallback(r)
        /\ b.kind \in {"list", "str"} =>
              ret \in {RawFallback(r), [kind |-> "dumps", v |-> b]}
        /\ (b.kind = "dict" /\ "message" \in keys) => ret = b.v.val["message"]
        /\ (b.kind = "dict" /\ keys \cap {"message", "error"} = {}) =>
              ret = [kind |-> "dumps", v |-> b]

ErrorFieldWins == 
    /\ done /\ op = "parse_api_error"
    /\ args.response.json.kind = "dict"
    /\ "error" \in args.response.json.v.keys
    /\ "message" \notin args.response.json.v.keys

(* C3 as stated: parse_api_error never raises and takes, in this order, a   *)
(* top-level `message`; else `error`, giving its value if it is a string   *)
(* and its nested `message` if it is an object; else the serialized body;  *)
(* and the raw-text fallback when the body does not decode or probing it   *)
(* fails.                                                                  *)
ParseApiErrorAsStated ==
    (done /\ op = "parse_api_error") =>
        /\ ParseApiErrorOutsideErrorField
        /\ ErrorFieldWins =>
              LET e == args.response.json.v.val["error"]
              IN  /\ e.kind = "str" => ret = e
                  /\ e.kind = "dict" =>
                        "message" \in e.v.keys /\ ret = e.v.val["message"]

(* C3 as amended: as stated, except that an `error` object without a       *)
(* nested `message`, and an `error` value that is neither a string nor an  *)
(* object, give the string form str(error) of that value.                  *)
ParseApiErrorPriority ==
    (done /\ op = "parse_api_error") =>
        /\ ParseApiErrorOutsideErrorField
        /\ ErrorFieldWins =>
              LET e == args.response.json.v.val["error"]
              IN  /\ e.kind = "str" => ret = e
                  /\ (e.kind = "dict" /\ "message" \in e.v.keys) =>
                        ret = e.v.val["message"]
                  /\ (e.kind = "dict" /\ "message" \notin e.v.keys) =>
                        ret = [kind |-> "repr", v |-> e]
                  /\ e.kind \notin {"str", "dict"} =>
                        ret = [kind |-> "repr", v |-> e]

ParseApiErrorPriorityWitness ==
    /\ ErrorFieldWins
    /\ args.response.json.v.val["error"] = Obj1("code", PyNum(7))
    /\ ret = [kind |-> "repr", v |-> Obj1("code", PyNum(7))]

\* the per-image price, in thousandths of a dollar
PriceInThousandths(render_speed, use_character) ==
    CASE render_speed = "Turbo" -> IF use_character THEN 40 ELSE 30
      [] render_speed = "Default" -> IF use_character THEN 70 ELSE 60
      [] render_speed = "Quality" -> IF use_character THEN 100 ELSE 90
      [] OTHER -> 70

(* C9: calculate_cost returns image_count times the per-image price of the *)
(* selected table (character 0.04 / 0.07 / 0.10, base 0.03 / 0.06 / 0.09,  *)
(* 0.07 for an unknown tier whatever the table), and                       *)
(* format_generation_info reports the character-reference cost.            *)
CostFollowsPriceTables ==
    /\ (done /\ op = "calculate_cost") =>
          /\ ~raised
          /\ ret = PyNum(args.image_count
                         * PriceInThousandths(args.render_speed, args.use_character))
    /\ (done /\ op = "format_generation_info") =>
          /\ ~raised
          /\ LET c == args.image_count * PriceInThousandths(args.render_speed, TRUE)
             IN  /\ ret.v[7][2][1] = c \div 1000
                 /\ 100 * ret.v[7][2][3] + 10 * ret.v[7][2][4] + ret.v[7][2][5]
                       = c % 1000

CostFollowsPriceTablesWitness ==
    /\ done /\ op = "format_generation_info"
    /\ args.render_speed = "Quality" /\ args.image_count = 3
    /\ ret.v[7] = <<"Estimated Cost: $", <<0, ".", 3, 0, 0>>>>

(* C4: validate_image_dimensions returns a (boolean, message) pair, never  *)
(* raises, and reports invalid exactly when a side is below 256 or above   *)
(* 2048 or the pixel count is above 4,194,304; (2048, 2048) is valid,      *)
(* (100, 100) and (2049, 2049) are not.                                    *)
DimensionsValidExactlyInRange ==
    (done /\ op = "validate_image_dimensions") =>
        LET w == args.width
            h == args.height
        IN  /\ ~raised
            /\ ret.kind = "tuple" /\ Len(ret.v) = 2
            /\ ret.v[1] \in BOOLEAN
            /\ (ret.v[1] = FALSE) <=>
                  \/ w < 256 \/ h < 256
                  \/ w > 2048 \/ h > 2048
                  \/ w * h > 4194304
            /\ (w = 2048 /\ h = 2048) => ret.v[1] = TRUE
            /\ (w = 100 /\ h = 100) => ret.v[1] = FALSE
            /\ (w = 2049 /\ h = 2049) => ret.v[1] = FALSE

DimensionsValidExactlyInRangeWitness ==
    /\ done /\ op = "validate_image_dimensions"
    /\ args.width = 2048 /\ args.height = 2048
    /\ ret = PyTuple(<<TRUE, "Valid dimensions">>)

----------------------------------------------------------------------------
\* entry i of the table is strictly closer to w / h than entry j, over the
\* rationals: |ai/bi - w/h| < |aj/bj - w/h|
ExactlyCloser(i, j, w, h) ==
    Abs(aspect_ratios[i][2] * h - w * aspect_ratios[i][3]) * aspect_ratios[j][3]
      < Abs(aspect_ratios[j][2] * h - w * aspect_ratios[j][3]) * aspect_ratios[i][3]

\* the difference the code computes for entry i: abs(x[1] - ratio), in doubles
ComputedDiff(i, w, h) ==
    FlAbsSub(FlDiv(aspect_ratios[i][2], aspect_ratios[i][3]), FlDiv(w, h))

LabelIndex(label) == CHOOSE i \in 1..Len(aspect_ratios) : aspect_ratios[i][1] = label

(* C5 as stated: the label returned is the first, in the table's order, of *)
(* the entries whose ratio has the minimum absolute difference from        *)
(* width / height.                                                         *)
ClosestRatioFirstInTableAsStated ==
    (done /\ op = "calculate_aspect_ratio") =>
        /\ ret.kind = "str"
        /\ \E i \in 1..Len(aspect_ratios) : ret.v = aspect_ratios[i][1]
        /\ LET i == LabelIndex(ret.v)
           IN  /\ \A j \in 1..Len(aspect_ratios) :
                     ~ExactlyCloser(j, i, args.width, args.height)
               /\ \A j \in 1..(i - 1) : ExactlyCloser(i, j, args.width, args.height)

(* C5 as amended: the label returned is one of the 15 whose ratio has the  *)
(* minimum absolute difference from width / height; among several such     *)
(* entries it is the one whose difference as computed in double-precision  *)
(* arithmetic (abs(value - width / height), each operation rounded) is     *)
(* smallest, and the first in the table's order among those whose computed *)
(* differences are equal.  (1920, 1080) gives 16:9, (100, 100) gives 1:1.  *)
ClosestRatioByComputedDifference ==
    (done /\ op = "calculate_aspect_ratio") =>
        /\ ret.kind = "str"
        /\ \E i \in 1..Len(aspect_ratios) : ret.v = aspect_ratios[i][1]
        /\ LET i == LabelIndex(ret.v)
               w == args.width
               h == args.height
           IN  /\ \A j \in 1..Len(aspect_ratios) : ~ExactlyCloser(j, i, w, h)
               /\ \A j \in 1..Len(aspect_ratios) :
                     ~FlLess(ComputedDiff(j, w, h), ComputedDiff(i, w, h))
               /\ \A j \in 1..(i - 1) :
                     FlLess(ComputedDiff(i, w, h), ComputedDiff(j, w, h))
        /\ (args.width = 1920 /\ args.height = 1080) => ret.v = "16:9"
        /\ (args.width = 100 /\ args.height = 100) => ret.v = "1:1"

\* 5/12 is midway between 1/3 and 1/2; the computed differences are not equal
ClosestRatioByComputedDifferenceWitness ==
    /\ done /\ op = "calculate_aspect_ratio"
    /\ args.width = 5 /\ args.height = 12
    /\ ~ExactlyCloser(13, 15, 5, 12) /\ ~ExactlyCloser(15, 13, 5, 12)
    /\ FlLess(ComputedDiff(15, 5, 12), ComputedDiff(13, 5, 12))
    /\ ret = PyStr("1:2")

----------------------------------------------------------------------------
\* floor(side * f), f = sqrt(maxSizeMB / currentSizeMB) * 0.9, as doubles
ScaledSide(side, max_units, png_units) ==
    FlTrunc(FlMul(FlInt(side),
                  FlMul(FlSqrt(FlDiv(max_units, png_units)), FlDiv(9, 10))))

\* n is floor(side * 0.9 * sqrt(max / png)) over the reals, to within one
\* (checked where the squares fit TLC's 32-bit integers)
NearRealFloor(n, side, max_units, png_units) ==
    (side <= 1024 /\ max_units <= 4) =>
        /\ 100 * png_units * n * n <= 81 * max_units * side * side
        /\ 100 * png_units * (n + 2) * (n + 2) > 81 * max_units * side * side

(* C6: resize_to_limit returns the input image itself, untouched, when its *)
(* encoded size is within the limit; otherwise it estimates the size once  *)
(* and resizes once, to max(floor(width * f), 256) by                      *)
(* max(floor(height * f), 256) with f = sqrt(max / current) * 0.9, so no   *)
(* side of the result is below 256.                                        *)
ResizeOnceToScaledClamped ==
    (done /\ op = "resize_to_limit") =>
        LET w == args.image.size[1]
            h == args.image.size[2]
            sw == ScaledSide(w, args.max_units, args.png_units)
            sh == ScaledSide(h, args.max_units, args.png_units)
        IN  /\ ~raised
            /\ ret.kind = "image"
            /\ heap[1] = args.image
            /\ args.png_units <= args.max_units =>
                  /\ ret.v = 1
                  /\ Len(heap) = 1
                  /\ pil = <<"save PNG">>
            /\ args.png_units > args.max_units =>
                  /\ ret.v = 2 /\ Len(heap) = 2
                  /\ heap[2].size = <<Max(sw, 256), Max(sh, 256)>>
                  /\ NearRealFloor(sw, w, args.max_units, args.png_units)
                  /\ NearRealFloor(sh, h, args.max_units, args.png_units)
                  /\ heap[2].size[1] >= 256 /\ heap[2].size[2] >= 256
                  /\ pil = <<"save PNG", "resize LANCZOS">>

\* one side is scaled, the other would fall below 256 and is clamped
ResizeOnceToScaledClampedWitness ==
    /\ done /\ op = "resize_to_limit"
    /\ args.png_units > args.max_units
    /\ args.image.size[2] >= 256
    /\ ScaledSide(args.image.size[2], args.max_units, args.png_units) < 256
    /\ heap[ret.v].size[1] > 256
    /\ heap[ret.v].size[1] < args.image.size[1]
    /\ heap[ret.v].size[2] = 256

(* C10 (what the code does): a side of the returned image is longer than   *)
(* the input's exactly when the image exceeds the limit and that side is    *)
(* shorter than 256; the side then becomes 256.                            *)
ResizeEnlargesShortSides ==
    (done /\ op = "resize_to_limit") =>
        \A d \in 1..2 :
            /\ (heap[ret.v].size[d] > args.image.size[d]) <=>
                  (args.png_units > args.max_units /\ args.image.size[d] < 256)
            /\ heap[ret.v].size[d] > args.image.size[d] => heap[ret.v].size[d] = 256

\* a 100 x 4000 image over the limit comes back 256 wide
ResizeEnlargesShortSidesWitness ==
    /\ done /\ op = "resize_to_limit"
    /\ args.image.size = <<100, 4000>>
    /\ args.png_units > args.max_units
    /\ heap[ret.v].size[1] = 256
    /\ heap[ret.v].size[2] < 4000

(* C10: resize_to_limit never enlarges: each side of the returned image is *)
(* at most the corresponding side of the input.                            *)
ResizeNeverEnlarges ==
    (done /\ op = "resize_to_limit") =>
        /\ heap[ret.v].size[1] <= args.image.size[1]
        /\ heap[ret.v].size[2] <= args.image.size[2]

----------------------------------------------------------------------------
\* the text drawn on the returned error image
DrawnText == heap[ret.v].data.text

(* C7 (what the code does): create_error_image never raises and returns a  *)
(* new RGB image of the requested size; when text can be drawn it draws    *)
(* the first min(n, 10) of the message's n lines, each horizontally        *)
(* centered, 25px apart, the first at height // 2 - 25 * n: the drawn      *)
(* block ends at or above the vertical midpoint.                           *)
ErrorTextBlockAboveMidpoint ==
    (done /\ op = "create_error_image") =>
        LET n == Len(split(args.message))
            k == Min(n, 10)
        IN  /\ ~raised
            /\ heap[ret.v].mode = "RGB"
            /\ heap[ret.v].size = <<args.width, args.height>>
            /\ args.support = "unavailable" => DrawnText = <<>>
            /\ args.support # "unavailable" =>
                  /\ Len(DrawnText) = k
                  /\ \A i \in 1..k :
                        /\ DrawnText[i].text = split(args.message)[i]
                        /\ DrawnText[i].y = args.height \div 2 - 25 * n + 25 * (i - 1)
                        /\ args.width - 1 <= 2 * DrawnText[i].x
                                              + text_width(DrawnText[i].text, args.support)
                        /\ 2 * DrawnText[i].x
                              + text_width(DrawnText[i].text, args.support) <= args.width
                  /\ DrawnText[k].y + 25 <= args.height \div 2

\* ten lines on a 512px image: the block spans y = 6 .. 256
ErrorTextBlockAboveMidpointWitness ==
    /\ done /\ op = "create_error_image"
    /\ args.support = "arial.ttf" /\ args.height = 512
    /\ Len(DrawnText) = 10
    /\ DrawnText[1].y = 6
    /\ DrawnText[10].y = 231

(* C7: create_error_image draws the first min(n, 10) lines of the message  *)
(* 25px apart, each horizontally centered, as a block centered on the      *)
(* vertical midpoint height / 2 (to within one line pitch and a pixel of   *)
(* rounding), on an image of the requested size.                           *)
ErrorTextBlockCentered ==
    (done /\ op = "create_error_image" /\ args.support # "unavailable") =>
        LET k == Min(Len(split(args.message)), 10)
            top == DrawnText[1].y
            middle2 == 2 * top + 25 * k           \* twice the block's midpoint
        IN  /\ heap[ret.v].size = <<args.width, args.height>>
            /\ Len(DrawnText) = k
            /\ \A i \in 1..k : DrawnText[i].y = top + 25 * (i - 1)
            /\ Abs(middle2 - args.height) <= 2 * 25 + 1

----------------------------------------------------------------------------
\* out is c composited over white under alpha a, to the nearest integer
OverWhite(out, c, a) ==
    /\ 2 * (255 * out) - 2 * (255 * (255 - a) + c * a) <= 255
    /\ 2 * (255 * (255 - a) + c * a) - 2 * (255 * out) <= 255

(* C8: ensure_rgb returns an RGB image of the input's size; it returns the *)
(* input object itself exactly when the input is RGB; otherwise it returns *)
(* a new image (RGBA composited over white under its alpha band, any other *)
(* mode converted) and the input's mode and pixels stay as they were.      *)
EnsureRGBFreshUnlessRGB ==
    (done /\ op = "ensure_rgb") =>
        LET in == args.image
            out == heap[ret.v]
        IN  /\ ~raised
            /\ ret.kind = "image"
            /\ out.mode = "RGB"
            /\ out.size = in.size
            /\ \A i \in DOMAIN out.data : DOMAIN out.data[i] = 1..3
            /\ DOMAIN out.data = DOMAIN in.data
            /\ (ret.v = 1) <=> (in.mode = "RGB")
            /\ heap[1] = in
            /\ in.mode = "RGB" => Len(heap) = 1
            /\ in.mode # "RGB" => Len(heap) = 2
            /\ in.mode = "RGBA" =>
                  \A i \in DOMAIN in.data : \A b \in 1..3 :
                      OverWhite(out.data[i][b], in.data[i][b], in.data[i][4])
            /\ in.mode \in {"L", "LA"} =>
                  \A i \in DOMAIN in.data : \A b \in 1..3 :
                      out.data[i][b] = in.data[i][1]

\* a half-transparent black pixel comes out grey on a new image
EnsureRGBFreshUnlessRGBWitness ==
    /\ done /\ op = "ensure_rgb"
    /\ args.image.mode = "RGBA"
    /\ args.image.data[1] = <<0, 0, 0, 100>>
    /\ ret.v = 2
    /\ heap[2].data[1] = <<155, 155, 155>>
    /\ heap[1].data[1] = <<0, 0, 0, 100>>

====
